---- MODULE Spec2Model ----
(***************************************************************************)
(* A model of the API access layer of the NEON MCP server:                 *)
(*   - ApiCache (src/mcp/src/api/cache.ts): the response cache;            *)
(*   - NeonApiClient (src/mcp/src/api/client.ts): the request executor     *)
(*     (makeRequest), the query planner (queryData and the typed           *)
(*     operations) and the location resolver (findTowersAtSite);           *)
(*   - the handler of neon_get_location_hierarchy (src/unnamed/part_004).  *)
(*                                                                         *)
(* These specifications share the variables:                               *)
(*   SpecCache     the ApiCache methods called directly, under a clock;    *)
(*   SpecCacheLive SpecCache with the interval timer that keeps calling    *)
(*                 cleanup();                                              *)
(*   SpecKey       ApiCache.generateKey as a pure function of its inputs;  *)
(*   Spec          the client: tool calls that run to completion one at a  *)
(*                 time, each outbound fetch answered by the remote        *)
(*                 service;                                                *)
(*   SpecLive      Spec in which every fetch is settled and every timer    *)
(*                 fires;                                                  *)
(*   SpecResolver  one findTowersAtSite call on a fresh client;            *)
(*   SpecSearch    one searchLocationsByType call without a site, on a     *)
(*                 fresh client;                                           *)
(*   SpecHandlers  one tool call on a fresh client: findTowersAtSite or    *)
(*                 the handler of neon_get_location_hierarchy;             *)
(*   SpecPair      two getProducts() calls whose steps interleave;         *)
(*   SpecBackoff   one makeRequest call under each configured number of    *)
(*                 retry attempts.                                         *)
(*                                                                         *)
(* Optional values (a parameter that may be undefined) are sequences of    *)
(* length at most one: <<>> is undefined, <<x>> is the value x.            *)
(***************************************************************************)
EXTENDS Integers, Sequences, FiniteSets, TLC

---------------------------------------------------------------------------
(* Bounds of the model.                                                    *)

\* how many 1 ms steps the clock takes within one coarse period
MaxFine == 2
\* how many coarse (30 min) steps the clock takes
MaxCoarse == 2
\* how many parameters a parameter object of SpecKey holds at most
MaxParams == 2
\* how many tool calls one behaviour of the client makes
MaxCalls == 2
\* the largest retryAttempts the client is configured with in SpecBackoff
MaxAttempts == 5

---------------------------------------------------------------------------
(* Program constants.                                                      *)

\* cache.ts:5    private defaultTtl = 60 * 60 * 1000
DefaultTtl == 60 * 60 * 1000
\* client.ts:159 makeRequest(endpoint, queryParams, true, 30 * 60 * 1000)
DataQueryTtl == 30 * 60 * 1000
\* client.ts:19  private retryAttempts = 3
RetryAttempts == 3
\* client.ts:20  private retryDelay = 1000
RetryDelay == 1000
\* client.ts:28  setInterval(..., 10 * 60 * 1000)
CleanupInterval == 10 * 60 * 1000

---------------------------------------------------------------------------
(* JavaScript values, as far as the code looks at them.                    *)

JsNull == [t |-> "null"]
JsUndefined == [t |-> "undefined"]
JsZero == [t |-> "number", n |-> 0]
JsObj(i) == [t |-> "object", id |-> i]
JsStr(s) == [t |-> "string", s |-> s]
JsArr(a) == [t |-> "array", items |-> a]
JsBool(b) == [t |-> "boolean", b |-> b]
JsNum(n) == [t |-> "number", n |-> n]

\* ToBoolean: what `if (x)` tests
Truthy(v) ==
    CASE v.t = "null" -> FALSE
      [] v.t = "undefined" -> FALSE
      [] v.t = "number" -> v.n # 0
      [] v.t = "boolean" -> v.b
      [] v.t = "string" -> v.s # ""
      [] OTHER -> TRUE

\* Array.prototype.join(sep) on an array of strings
RECURSIVE Join(_, _)
Join(a, sep) ==
    IF Len(a) = 0 THEN ""
    ELSE IF Len(a) = 1 THEN a[1]
    ELSE a[1] \o sep \o Join(Tail(a), sep)

\* ToString: what a template literal `${v}` and String(v) produce
ToStr(v) ==
    CASE v.t = "null" -> "null"
      [] v.t = "undefined" -> "undefined"
      [] v.t = "boolean" -> (IF v.b THEN "true" ELSE "false")
      [] v.t = "string" -> v.s
      [] v.t = "array" -> Join(v.items, ",")
      [] v.t = "number" -> (IF v.n = 0 THEN "0" ELSE "NaN")
      [] OTHER -> "[object Object]"

---------------------------------------------------------------------------
(* Plain objects used as parameter records: a sequence of [name, value]    *)
(* pairs with distinct names, in insertion order (the order Object.keys    *)
(* and Object.entries follow for string keys). An undefined params         *)
(* argument and {} are both the empty sequence: the code treats them alike *)
(* (cache.ts:84, client.ts:49).                                            *)

ObjectKeys(p) == [i \in 1..Len(p) |-> p[i].name]

ObjHas(p, name) == \E i \in 1..Len(p) : p[i].name = name

\* p[name], undefined when the property is missing
ObjGet(p, name) ==
    IF ObjHas(p, name) THEN p[CHOOSE i \in 1..Len(p) : p[i].name = name].value
    ELSE JsUndefined

\* p[name] = v: an existing property keeps its place, a new one goes last
ObjSet(p, name, v) ==
    IF ObjHas(p, name)
      THEN [i \in 1..Len(p) |-> IF p[i].name = name THEN [name |-> name, value |-> v] ELSE p[i]]
      ELSE Append(p, [name |-> name, value |-> v])

\* delete p[name]
ObjDelete(p, name) == SelectSeq(p, LAMBDA pr : pr.name # name)

\* The parameter names of the program in UTF-16 code unit order, the order
\* Array.prototype.sort() without a comparator puts them in.
CodeUnitOrder ==
    <<"endDateMonth", "hierarchy", "history", "includeProvisional", "locationType",
      "package", "productCode", "release", "sampleTag", "siteCode", "siteCodes",
      "startDateMonth">>

Rank(name) == CHOOSE i \in 1..Len(CodeUnitOrder) : CodeUnitOrder[i] = name

\* a < b as strings
StrLess(a, b) == Rank(a) < Rank(b)

RECURSIVE InsertSorted(_, _)
InsertSorted(x, sorted) ==
    IF Len(sorted) = 0 THEN <<x>>
    ELSE IF StrLess(x, Head(sorted)) THEN <<x>> \o sorted
    ELSE <<Head(sorted)>> \o InsertSorted(x, Tail(sorted))

\* mutant: the keys are left in insertion order
RECURSIVE SortStringsOmitted(_)
SortStringsOmitted(a) == a

\* Array.prototype.sort() on an array of strings
RECURSIVE SortStrings(_)
SortStrings(a) ==
    IF Len(a) = 0 THEN <<>> ELSE InsertSorted(Head(a), SortStrings(Tail(a)))

---------------------------------------------------------------------------
(* State.                                                                  *)

VARIABLES
    cache,      \* ApiCache.cache: Map<CacheKey, CacheEntry>, a function on the keys present
    now,        \* Date.now()
    ret,        \* the last ApiCache method called directly, its arguments and its result;
                \* ret.flag: a get() that directly follows a set() of the same key
    sweptAt,    \* <<t>>: cleanup() last ran at clock value t and set() has not run since
    keyIn,      \* SpecKey: the arguments of generateKey, [endpoint, p1, p2]
    keyOut,     \* SpecKey: <<generateKey(endpoint, p1), generateKey(endpoint, p2)>> once computed
    top,        \* the tool call in progress or last finished: [op, arg]
    calls,      \* how many tool calls have been started
    req,        \* the makeRequest call (or direct fetch) in progress or last finished
    lastResp,   \* the response the remote service gave to the last outbound request
    waits,      \* the setTimeout delays the current makeRequest call has waited for
    sent,       \* the last outbound request: [method, endpoint, query, body]
    nSent,      \* how many outbound requests the current tool call (in SpecPair: the two
                \* calls) has made
    res,        \* the findTowersAtSite call in progress or last finished
    srch,       \* the searchLocationsByType call in progress or last finished
    inflight,   \* how many outbound requests are sent and not yet answered
    walk,       \* the neon_get_location_hierarchy handler in progress or last finished
    peer,       \* a second makeRequest call, running while req runs
    ends        \* the makeRequest calls that ended after a fetch, in order of their end

apiVars == <<ret, sweptAt>>
keyVars == <<keyIn, keyOut>>
clientVars == <<top, calls, req, lastResp, waits, sent, nSent, res, srch, inflight, walk, peer,
      ends>>
reqVars == <<req, lastResp, waits, sent, nSent, inflight>>
vars ==
    <<cache, now, ret, sweptAt, keyIn, keyOut, top, calls, req, lastResp, waits, sent, nSent, res,
      srch, inflight, walk, peer, ends>>

---------------------------------------------------------------------------
(* Map<K, V>                                                               *)

EmptyMap == << >>

MapHas(m, k) == k \in DOMAIN m

MapSet(m, k, e) == [x \in (DOMAIN m) \cup {k} |-> IF x = k THEN e ELSE m[x]]

MapDelete(m, k) == [x \in (DOMAIN m) \ {k} |-> m[x]]

---------------------------------------------------------------------------
(* ApiCache                                                                *)

\* mutant: an entry whose age equals its ttl counts as expired
ExpiredAtTtl(entry, t) == t - entry.timestamp >= entry.ttl

\* cache.ts:31, 48, 74   now - entry.timestamp > entry.ttl
Expired(entry, t) == t - entry.timestamp > entry.ttl

\* cache.ts:17   ttl || this.defaultTtl   (undefined and 0 are falsy)
EffectiveTtl(ttl) == IF ttl # <<>> /\ ttl[1] # 0 THEN ttl[1] ELSE DefaultTtl

\* mutant: set() leaves an entry that is present as it is
CacheSetKeepsFirst(c, t, key, data, ttl) ==
    IF MapHas(c, key) THEN c
    ELSE MapSet(c, key, [data |-> data, timestamp |-> t, ttl |-> EffectiveTtl(ttl)])

\* cache.ts:13-20  set(key, data, ttl)
CacheSet(c, t, key, data, ttl) ==
    MapSet(c, key, [data |-> data, timestamp |-> t, ttl |-> EffectiveTtl(ttl)])

\* mutant: a falsy value is handed back as null (return entry.data || null)
CacheGetValueCoerced(c, t, key) ==
    IF ~MapHas(c, key) THEN JsNull
    ELSE IF Expired(c[key], t) THEN JsNull
    ELSE IF Truthy(c[key].data) THEN c[key].data ELSE JsNull

\* cache.ts:22-37  get(key): the value returned
CacheGetValue(c, t, key) ==
    IF ~MapHas(c, key) THEN JsNull
    ELSE IF Expired(c[key], t) THEN JsNull
    ELSE c[key].data

\* cache.ts:22-37  get(key): the store afterwards (expire-on-read)
CacheGetStore(c, t, key) ==
    IF MapHas(c, key) /\ Expired(c[key], t) THEN MapDelete(c, key) ELSE c

\* cache.ts:39-54  has(key): the value returned; the store afterwards is as for get
CacheHasValue(c, t, key) == MapHas(c, key) /\ ~Expired(c[key], t)

\* mutant: the sweep collects the entries that have reached half their ttl
KeysToDeleteEarly(c, t) == {k \in DOMAIN c : 2 * (t - c[k].timestamp) > c[k].ttl}

\* mutant: the sweep measures every entry against the default ttl
KeysToDeleteDefaultTtl(c, t) == {k \in DOMAIN c : t - c[k].timestamp > DefaultTtl}

\* cache.ts:69-77  the keys cleanup() collects
KeysToDelete(c, t) == {k \in DOMAIN c : Expired(c[k], t)}

\* mutant: the sweep stops after the first expired key it deletes
CacheCleanupFirstOnly(c, t) ==
    IF KeysToDelete(c, t) = {} THEN c
    ELSE MapDelete(c, CHOOSE k \in KeysToDelete(c, t) : TRUE)

\* mutant: the sweep deletes nothing
CacheCleanupKeepsAll(c, t) == c

\* cache.ts:69-80  cleanup()
CacheCleanup(c, t) == [k \in (DOMAIN c) \ KeysToDelete(c, t) |-> c[k]]

\* cache.ts:83-94  static generateKey(endpoint, params)
generateKey(endpoint, params) ==
    IF Len(params) = 0 THEN endpoint
    ELSE LET keys == SortStrings(ObjectKeys(params))
             parts == [i \in 1..Len(keys) |->
                         keys[i] \o "=" \o ToStr(ObjGet(params, keys[i]))]
         IN  endpoint \o "?" \o Join(parts, "&")

---------------------------------------------------------------------------
(* The client at rest.                                                     *)

NoTop == [op |-> "none", arg |-> <<>>]

NoReq ==
    [via |-> "none", pc |-> "none", endpoint |-> "", params |-> <<>>,
     cacheEnabled |-> FALSE, cacheTtl |-> <<>>, cacheKey |-> "", attempt |-> 0,
     value |-> JsUndefined, held |-> <<>>]

NoResp == [status |-> 0 - 1, json |-> FALSE, marker |-> FALSE]

NoSent == [method |-> "none", endpoint |-> "", query |-> <<>>, body |-> <<>>]

\* the resolver's frame: pc, the towers collected, the index of the guess
\* awaited, the result; and what it has seen: the lookups it has issued and
\* what each strategy got back (<<>> while it has not come back)
NoRes ==
    [pc |-> "none", siteCode |-> "", towers |-> <<>>, idx |-> 0, value |-> <<>>,
     lookups |-> <<>>, direct |-> <<>>, catalog |-> <<>>, guessed |-> <<>>]

\* the search's frame: pc, the sites of the catalog's prefix, the index of
\* the site under examination, the sites examined and the locations
\* collected so far, the result
NoSrch ==
    [pc |-> "none", sites |-> <<>>, idx |-> 0, examined |-> <<>>, matching |-> <<>>,
     value |-> <<>>]

\* the handler's frame: pc, the children the location lists, the index of
\* the child awaited, the children looked up so far
NoWalk == [pc |-> "none", children |-> <<>>, idx |-> 0, expanded |-> <<>>]

ClientIdle ==
    /\ top = NoTop
    /\ calls = 0
    /\ req = NoReq
    /\ lastResp = NoResp
    /\ waits = <<>>
    /\ sent = NoSent
    /\ nSent = 0
    /\ res = NoRes
    /\ srch = NoSrch
    /\ inflight = 0
    /\ walk = NoWalk
    /\ peer = NoReq
    /\ ends = <<>>

---------------------------------------------------------------------------
(* SpecCache: the ApiCache methods, called in any order, and the clock.    *)

CacheKeys == {"k1", "k2"}
CacheValues == {JsObj(1), JsZero}
TtlArgs == {<<>>, <<0 - 1>>, <<0>>, <<1>>}

NoRet == [op |-> "none", key |-> "", val |-> JsUndefined, ttl |-> <<>>, flag |-> FALSE]

InitCache ==
    /\ cache = EmptyMap
    /\ now = 0
    /\ ret = NoRet
    /\ sweptAt = <<>>
    /\ keyIn = <<>>
    /\ keyOut = <<>>
    /\ ClientIdle

\* The clock advances by 1 ms or by 30 min, within the bounds.
Tick ==
    /\ \E d \in {1, DataQueryTtl} :
         /\ IF d = 1 THEN now % DataQueryTtl < MaxFine
                     ELSE now \div DataQueryTtl < MaxCoarse
         /\ now' = now + d
    /\ ret' = [NoRet EXCEPT !.op = "tick"]
    /\ UNCHANGED <<cache, sweptAt, keyVars, clientVars>>

ApiSet ==
    \E k \in CacheKeys, v \in CacheValues, ttl \in TtlArgs :
      /\ cache' = CacheSet(cache, now, k, v, ttl)
      /\ ret' = [NoRet EXCEPT !.op = "set", !.key = k, !.val = v, !.ttl = ttl]
      /\ sweptAt' = <<>>
      /\ UNCHANGED <<now, keyVars, clientVars>>

ApiGet ==
    \E k \in CacheKeys :
      /\ cache' = CacheGetStore(cache, now, k)
      /\ ret' = [NoRet EXCEPT !.op = "get", !.key = k, !.val = CacheGetValue(cache, now, k),
                              !.flag = (ret.op = "set" /\ ret.key = k)]
      /\ UNCHANGED <<now, sweptAt, keyVars, clientVars>>

ApiHas ==
    \E k \in CacheKeys :
      /\ cache' = CacheGetStore(cache, now, k)
      /\ ret' = [NoRet EXCEPT !.op = "has", !.key = k,
                              !.val = JsBool(CacheHasValue(cache, now, k))]
      /\ UNCHANGED <<now, sweptAt, keyVars, clientVars>>

\* cache.ts:56-58
ApiDelete ==
    \E k \in CacheKeys :
      /\ cache' = MapDelete(cache, k)
      /\ ret' = [NoRet EXCEPT !.op = "delete", !.key = k, !.val = JsBool(MapHas(cache, k))]
      /\ UNCHANGED <<now, sweptAt, keyVars, clientVars>>

\* cache.ts:60-62
ApiClear ==
    /\ cache' = EmptyMap
    /\ ret' = [NoRet EXCEPT !.op = "clear"]
    /\ UNCHANGED <<now, sweptAt, keyVars, clientVars>>

\* cache.ts:64-66
ApiSize ==
    /\ ret' = [NoRet EXCEPT !.op = "size", !.val = JsNum(Cardinality(DOMAIN cache))]
    /\ UNCHANGED <<cache, now, sweptAt, keyVars, clientVars>>

\* cleanup(); ret.val tells how many keys it deleted, ret.flag whether it ran
\* after another cleanup() at the same clock value with no set() between
ApiCleanup ==
    /\ cache' = CacheCleanup(cache, now)
    /\ ret' = [NoRet EXCEPT !.op = "cleanup",
                            !.val = JsNum(Cardinality((DOMAIN cache) \ (DOMAIN cache'))),
                            !.flag = (sweptAt = <<now>>)]
    /\ sweptAt' = <<now>>
    /\ UNCHANGED <<now, keyVars, clientVars>>

NextCache ==
    \/ Tick
    \/ ApiSet
    \/ ApiGet
    \/ ApiHas
    \/ ApiDelete
    \/ ApiClear
    \/ ApiSize
    \/ ApiCleanup

SpecCache == InitCache /\ [][NextCache]_vars

\* client.ts:26-28  SpecCache with the interval timer of the client, which
\* keeps calling cleanup()
SpecCacheLive == SpecCache /\ WF_vars(ApiCleanup)

---------------------------------------------------------------------------
(* SpecKey: generateKey applied to one endpoint and two parameter objects. *)

KeyEndpoints == {"/api/v0/sites", "/api/v0/data/query"}
KeyNames == {"release", "siteCode", "siteCodes"}
KeyValues == {JsStr("ABBY"), JsStr("ABBY,SRER"), JsArr(<<"ABBY", "SRER">>), JsUndefined}
KeyPairs == [name : KeyNames, value : KeyValues]

\* the parameter objects of at most MaxParams properties
ParamObjects ==
    UNION {{p \in [1..n -> KeyPairs] :
              \A i, j \in 1..n : p[i].name = p[j].name => i = j} : n \in 0..MaxParams}

\* P1 and P2 hold the same name/value pairs
SamePairs(p1, p2) == {p1[i] : i \in 1..Len(p1)} = {p2[i] : i \in 1..Len(p2)}

InitKey ==
    /\ keyIn \in [endpoint : KeyEndpoints, p1 : ParamObjects, p2 : ParamObjects]
    /\ keyOut = <<>>
    /\ cache = EmptyMap
    /\ now = 0
    /\ ret = NoRet
    /\ sweptAt = <<>>
    /\ ClientIdle

GenerateKeys ==
    /\ keyOut = <<>>
    /\ keyOut' = <<generateKey(keyIn.endpoint, keyIn.p1), generateKey(keyIn.endpoint, keyIn.p2)>>
    /\ UNCHANGED <<keyIn, cache, now, apiVars, clientVars>>

NextKey == GenerateKeys

SpecKey == InitKey /\ [][NextKey]_vars

---------------------------------------------------------------------------
(* The remote service: what one outbound request can be answered with.     *)

\* client.ts:331-338  the wire contract: { data } on success,
\* { detail, status } on failure. A response is
\*   status   the HTTP status, 0 when fetch itself rejects (network failure);
\*   json     whether response.json() can decode the body;
\*   bstatus  the body's status field, <<>> when it has none;
\*   bmarked  whether the body's detail text contains "Status: 4";
\*   data     the body's data field.
Payloads == {JsObj(1), JsZero}

\* client.ts:430-447  a Location, with the fields the resolver reads
Location(name, site, type, desc) ==
    [t |-> "location", locationName |-> name, siteCode |-> site, locationType |-> type,
     locationDescription |-> desc]

ResolverSites == {"SRER", "ABBY"}

CatalogEndpoint == "/api/v0/locations/sites"

LocationEndpoint(name) == "/api/v0/locations/" \o name

\* mutant: a seventh possible name
PossibleTowerNamesSeven(siteCode) ==
    <<"TOWER" \o siteCode, siteCode \o "_TOWER", siteCode \o ".TOWER",
      "TOWER104454", "TOWER103029", "TOWER102755", "TOWER100000">>

\* client.ts:211-219  possibleTowerNames
PossibleTowerNames(siteCode) ==
    <<"TOWER" \o siteCode, siteCode \o "_TOWER", siteCode \o ".TOWER",
      "TOWER104454", "TOWER103029", "TOWER102755">>

TowerNames == UNION {{PossibleTowerNames(site)[i] : i \in 1..6} : site \in ResolverSites}

Tower(name, site) == Location(name, site, "TOWER", "Tower")

\* what a lookup by name can return: under TOWER104454 a tower of either
\* site or null, under the two other ids a tower of one site, under a name
\* made from a site code a tower of that site
LocationPayloads(name) ==
    CASE name = "TOWER104454" -> {Tower(name, "SRER"), Tower(name, "ABBY"), JsNull}
      [] name = "TOWER103029" -> {Tower(name, "ABBY")}
      [] name = "TOWER102755" -> {Tower(name, "SRER")}
      [] OTHER -> {Tower(name, site) :
                     site \in {x \in ResolverSites :
                                 \E i \in 1..3 : PossibleTowerNames(x)[i] = name}}

\* eleven sites, one more than a cross-site search examines
ManySites ==
    <<"BART", "HARV", "BLAN", "SCBI", "SERC", "DSNY", "JERC", "OSBS", "GUAN", "LAJA", "STEI">>

\* a catalog with one tower for each of the eleven sites
LongCatalog == JsArr([i \in 1..Len(ManySites) |-> Location("T1", ManySites[i], "TOWER", "Tower")])

\* what the site-location catalog can be: empty; one site entry that is no
\* tower; a tower by its type tag, by its name, by "tower" or by "flux" in its
\* description; a tower of another site next to a site entry; an entry
\* without description; the long catalog; or no list at all
Catalogs ==
    {JsArr(<<>>),
     JsArr(<<Location("SRER", "SRER", "SITE", "Santa Rita")>>),
     JsArr(<<Location("SRER", "SRER", "SITE", "Santa Rita"),
             Location("T1", "SRER", "TOWER", "Santa Rita")>>),
     JsArr(<<Location("srer tower", "SRER", "", "Santa Rita")>>),
     JsArr(<<Location("T1", "SRER", "", "Tower")>>),
     JsArr(<<Location("T1", "SRER", "", "Eddy flux")>>),
     JsArr(<<Location("T1", "ABBY", "TOWER", "Tower"),
             Location("SRER", "SRER", "SITE", "Santa Rita")>>),
     JsArr(<<[t |-> "location", locationName |-> "SRER", siteCode |-> "SRER",
              locationType |-> "SITE"]>>),
     LongCatalog,
     JsNull}

\* the location whose hierarchy is asked for; its children are PLOT1 and PLOT2
WalkRoot == "D14"

\* client.ts:430-447  a Location with the fields the handler reads: the
\* latitude and the list of children, each <<>> when the field is missing
HierarchyLocation(name, lat, children) ==
    [t |-> "location", locationName |-> name, locationDecimalLatitude |-> lat,
     locationChildren |-> children]

\* what the lookup of the hierarchy can return: a location with no list of
\* children, with an empty list, with three or with 21 children (one more
\* than the handler looks up); a location without coordinates; or null
HierarchyPayloads ==
    {HierarchyLocation(WalkRoot, <<31>>, <<>>),
     HierarchyLocation(WalkRoot, <<31>>, << <<>> >>),
     HierarchyLocation(WalkRoot, <<31>>, << <<"PLOT1", "PLOT2", "PLOT1">> >>),
     HierarchyLocation(WalkRoot, <<31>>,
                       <<[i \in 1..21 |-> IF i % 2 = 1 THEN "PLOT1" ELSE "PLOT2"]>>),
     HierarchyLocation(WalkRoot, <<>>, << <<"PLOT1">> >>),
     JsNull}

\* what the lookup of a child can return: the child, or null
ChildPayloads(name) == {HierarchyLocation(name, <<31>>, <<>>), JsNull}

\* the payloads a successful response to a request for endpoint can carry
PayloadsFor(endpoint) ==
    IF endpoint = CatalogEndpoint THEN Catalogs
    ELSE IF endpoint = LocationEndpoint(WalkRoot) THEN HierarchyPayloads
    ELSE IF \E name \in {"PLOT1", "PLOT2"} : endpoint = LocationEndpoint(name)
      THEN ChildPayloads(CHOOSE name \in {"PLOT1", "PLOT2"} : endpoint = LocationEndpoint(name))
    ELSE IF \E name \in TowerNames : endpoint = LocationEndpoint(name)
      THEN LocationPayloads(CHOOSE name \in TowerNames : endpoint = LocationEndpoint(name))
    ELSE Payloads

\* client.ts:69-70  the body of a response that is not ok: not JSON, or a
\* JSON body whose fields status and detail go into the error's message
ErrorBodies ==
    [json : {FALSE}, bstatus : {<<>>}, bmarked : {FALSE}, data : {JsUndefined}]
      \cup [json : {TRUE}, bstatus : {<<>>, <<404>>, <<500>>}, bmarked : BOOLEAN,
            data : {JsUndefined}]

\* what the remote service can answer to a request for endpoint; status 0
\* is a connection that failed
ResponsesFor(endpoint) ==
    [status : {0}, json : {FALSE}, bstatus : {<<>>}, bmarked : {FALSE}, data : {JsUndefined}]
      \cup [status : {200}, json : {FALSE}, bstatus : {<<>>}, bmarked : {FALSE},
            data : {JsUndefined}]
      \cup [status : {200}, json : {TRUE}, bstatus : {<<>>}, bmarked : {FALSE},
            data : PayloadsFor(endpoint)]
      \cup {[status |-> h, json |-> b.json, bstatus |-> b.bstatus, bmarked |-> b.bmarked,
             data |-> b.data] : h \in {404, 500}, b \in ErrorBodies}

\* client.ts:69  response.ok
ResponseOk(r) == r.status >= 200 /\ r.status <= 299

\* mutant: any decoded body counts as a success, whatever the status
SucceedsAnyStatus(r) == r.status # 0 /\ r.json

\* the request settles without an exception: fetch resolved, the status is ok
\* and the body decodes (client.ts:67-74)
Succeeds(r) == r.status # 0 /\ ResponseOk(r) /\ r.json

\* client.ts:71, 86  whether the message of the error thrown for r includes
\* 'Status: 4'. The message is `NEON API Error: ${detail} (Status: ${status})`
\* when the status is not ok and the body decodes; a rejected fetch or
\* response.json() carries a message of its own, without that text.
MessageIncludesStatus4(r) ==
    /\ r.status # 0
    /\ ~ResponseOk(r)
    /\ r.json
    /\ \/ r.bmarked
       \/ r.bstatus # <<>> /\ r.bstatus[1] \div 100 = 4

\* what the state keeps of a response
Seen(r) == [status |-> r.status, json |-> r.json, marker |-> MessageIncludesStatus4(r)]

JsError(r) == [t |-> "error", status |-> r.status, marker |-> MessageIncludesStatus4(r)]

---------------------------------------------------------------------------
(* NeonApiClient.makeRequest                                               *)

\* client.ts:49-61  the query string: the entries in insertion order, undefined
\* and null left out, an array repeated once per element
RECURSIVE SearchParams(_)
SearchParams(params) ==
    IF Len(params) = 0 THEN <<>>
    ELSE LET e == Head(params)
             these == CASE e.value.t \in {"undefined", "null"} -> <<>>
                        [] e.value.t = "array" ->
                             [i \in 1..Len(e.value.items) |-> <<e.name, e.value.items[i]>>]
                        [] OTHER -> <<<<e.name, ToStr(e.value)>>>>
         IN  these \o SearchParams(Tail(params))

\* mutant: every retry waits the same delay
BackoffDelayConstant(attempt) == RetryDelay

RECURSIVE Pow2(_)
Pow2(n) == IF n = 0 THEN 1 ELSE 2 * Pow2(n - 1)

\* mutant: every retry waits twice as long as the one before
BackoffDelayDoubling(attempt) == RetryDelay * Pow2(attempt)

\* client.ts:92  this.retryDelay * (attempt + 1)
BackoffDelay(attempt) == RetryDelay * (attempt + 1)

\* the entry an unexpired store holds for key at clock value t, <<>> if none
HeldAt(c, t, key) ==
    IF key \in DOMAIN c /\ t - c[key].timestamp <= c[key].ttl THEN <<c[key].data>> ELSE <<>>

\* client.ts:31-45  makeRequest up to its first await: the frame it leaves
MrBegin(c, t, endpoint, params, cacheEnabled, cacheTtl) ==
    LET key == generateKey(endpoint, params)
        cached == CacheGetValue(c, t, key)
        frame == [via |-> "makeRequest", pc |-> "fetch", endpoint |-> endpoint,
                  params |-> params, cacheEnabled |-> cacheEnabled, cacheTtl |-> cacheTtl,
                  cacheKey |-> key, attempt |-> 0, value |-> JsUndefined,
                  held |-> HeldAt(c, t, key)]
    IN  IF cacheEnabled /\ Truthy(cached)
          THEN [frame EXCEPT !.pc = "returned", !.value = cached]
          ELSE frame

\* client.ts:40-41  the store after makeRequest's cache.get
MrBeginStore(c, t, endpoint, params, cacheEnabled) ==
    IF cacheEnabled THEN CacheGetStore(c, t, generateKey(endpoint, params)) ELSE c

\* client.ts:47-67  the GET request makeRequest sends
GetRequest(frame) ==
    [method |-> "GET", endpoint |-> frame.endpoint, query |-> SearchParams(frame.params),
     body |-> <<>>]

\* client.ts:65-97  one turn of the retry loop, from the response r to the
\* next await or to the end of the call, with retryAttempts as configured
MrSettleOf(retryAttempts, frame, r, data) ==
    IF Succeeds(r) THEN [frame EXCEPT !.pc = "returned", !.value = data]
    ELSE IF MessageIncludesStatus4(r) THEN [frame EXCEPT !.pc = "thrown", !.value = JsError(r)]
    ELSE IF frame.attempt < retryAttempts - 1 THEN [frame EXCEPT !.pc = "wait"]
    ELSE [frame EXCEPT !.pc = "thrown", !.value = JsError(r)]

\* mutant: the loop allows one attempt more than configured
MrSettleOneMore(frame, r, data) == MrSettleOf(RetryAttempts + 1, frame, r, data)

\* client.ts:19, 65-97  the turn with the retryAttempts of the client
MrSettle(frame, r, data) == MrSettleOf(RetryAttempts, frame, r, data)

---------------------------------------------------------------------------
(* The query planner: the typed operations of NeonApiClient.               *)

Param(name, value) == [name |-> name, value |-> value]

DataQueryEndpoint == "/api/v0/data/query"

\* client.ts:377-386  DataQueryParams: the three required fields, then
\* siteCode and/or siteCodes as given
DataQueryBase ==
    <<Param("productCode", JsStr("DP1")), Param("startDateMonth", JsStr("2024-01")),
      Param("endDateMonth", JsStr("2024-02"))>>

SiteCodeArgs == {<<>>, <<Param("siteCode", JsStr("ABBY"))>>}

SiteCodesArgs ==
    {<<>>, <<Param("siteCodes", JsArr(<<>>))>>, <<Param("siteCodes", JsArr(<<"SRER">>))>>,
     <<Param("siteCodes", JsArr(<<"ABBY", "SRER">>))>>}

DataQueryInputs == {DataQueryBase \o a \o b : a \in SiteCodeArgs, b \in SiteCodesArgs}

\* the tool calls of Spec
PlannerCalls ==
    {[op |-> "getProducts", arg |-> <<>>],
     [op |-> "getProducts", arg |-> <<Param("release", JsStr("RELEASE-2024"))>>],
     [op |-> "trackSample", arg |-> <<Param("sampleTag", JsStr("S1"))>>],
     [op |-> "getDownloadUrl", arg |-> <<Param("filename", JsStr("f.csv"))>>]}
      \cup {[op |-> "queryData", arg |-> p] : p \in DataQueryInputs}

\* client.ts:126  params.siteCodes && params.siteCodes.length > 1
UsesPost(params) ==
    /\ ObjHas(params, "siteCodes")
    /\ Truthy(ObjGet(params, "siteCodes"))
    /\ Len(ObjGet(params, "siteCodes").items) > 1

\* client.ts:154-158  the parameters of the GET form of a data query
SingleSiteParams(params) ==
    IF ObjHas(params, "siteCodes") /\ Truthy(ObjGet(params, "siteCodes"))
      THEN LET list == ObjGet(params, "siteCodes").items
               first == IF Len(list) > 0 THEN JsStr(list[1]) ELSE JsUndefined
           IN  ObjDelete(ObjSet(params, "siteCode", first), "siteCodes")
      ELSE params

\* mutant: sample lookups are cached like the other operations
PlanOfSamplesCached(call) ==
    CASE call.op = "getProducts" ->
           [endpoint |-> "/api/v0/products", params |-> call.arg,
            cacheEnabled |-> TRUE, cacheTtl |-> <<>>]
      [] call.op = "trackSample" ->
           [endpoint |-> "/api/v0/samples/view", params |-> call.arg,
            cacheEnabled |-> TRUE, cacheTtl |-> <<>>]
      [] call.op = "queryData" ->
           [endpoint |-> DataQueryEndpoint, params |-> SingleSiteParams(call.arg),
            cacheEnabled |-> TRUE, cacheTtl |-> <<DataQueryTtl>>]

\* client.ts:101-119, 122-161, 285-295  what each operation hands to
\* makeRequest: [endpoint, params, cacheEnabled, cacheTtl]
PlanOf(call) ==
    CASE call.op = "getProducts" ->
           [endpoint |-> "/api/v0/products", params |-> call.arg,
            cacheEnabled |-> TRUE, cacheTtl |-> <<>>]
      [] call.op = "trackSample" ->
           [endpoint |-> "/api/v0/samples/view", params |-> call.arg,
            cacheEnabled |-> FALSE, cacheTtl |-> <<>>]
      [] call.op = "queryData" ->
           [endpoint |-> DataQueryEndpoint, params |-> SingleSiteParams(call.arg),
            cacheEnabled |-> TRUE, cacheTtl |-> <<DataQueryTtl>>]

\* client.ts:129-142  the multi-site data query up to its await: it reads
\* the cache itself and sends a POST with the parameters as JSON body
PostBegin(c, t, params) ==
    LET key == generateKey(DataQueryEndpoint, params)
        cached == CacheGetValue(c, t, key)
        frame == [via |-> "queryData.POST", pc |-> "fetch", endpoint |-> DataQueryEndpoint,
                  params |-> params, cacheEnabled |-> TRUE, cacheTtl |-> <<>>,
                  cacheKey |-> key, attempt |-> 0, value |-> JsUndefined,
                  held |-> HeldAt(c, t, key)]
    IN  IF Truthy(cached) THEN [frame EXCEPT !.pc = "returned", !.value = cached]
        ELSE frame

\* client.ts:136-142  JSON.stringify(params) leaves undefined properties out
PostRequest(frame) ==
    [method |-> "POST", endpoint |-> frame.endpoint, query |-> <<>>,
     body |-> SelectSeq(frame.params, LAMBDA e : e.value.t # "undefined")]

\* client.ts:313-316  getDownloadUrl: a HEAD request, the cache not involved
HeadBegin(call) ==
    [via |-> "getDownloadUrl.HEAD", pc |-> "fetch",
     endpoint |-> "/api/v0/data/DP1/SRER/2024-01/" \o ObjGet(call.arg, "filename").s,
     params |-> <<>>, cacheEnabled |-> FALSE, cacheTtl |-> <<>>, cacheKey |-> "",
     attempt |-> 0, value |-> JsUndefined, held |-> <<>>]

HeadRequest(frame) ==
    [method |-> "HEAD", endpoint |-> frame.endpoint, query |-> <<>>, body |-> <<>>]

\* client.ts:144-151, 318-326  a direct fetch settles: no retry loop
DirectSettle(frame, r, data) ==
    IF frame.via = "queryData.POST"
      THEN IF Succeeds(r) THEN [frame EXCEPT !.pc = "returned", !.value = data]
           ELSE [frame EXCEPT !.pc = "thrown", !.value = JsError(r)]
      ELSE IF r.status # 0 /\ ResponseOk(r)
             THEN [frame EXCEPT !.pc = "returned", !.value = JsObj(0)]
             ELSE [frame EXCEPT !.pc = "thrown", !.value = JsError(r)]

\* the frame a tool call of the planner starts with
BeginOf(call, c, t) ==
    IF call.op = "getDownloadUrl" THEN HeadBegin(call)
    ELSE IF call.op = "queryData" /\ UsesPost(call.arg) THEN PostBegin(c, t, call.arg)
    ELSE LET plan == PlanOf(call)
         IN  MrBegin(c, t, plan.endpoint, plan.params, plan.cacheEnabled, plan.cacheTtl)

\* the store after the cache lookup of that start
BeginStoreOf(call, c, t) ==
    IF call.op = "getDownloadUrl" THEN c
    ELSE IF call.op = "queryData" /\ UsesPost(call.arg)
      THEN CacheGetStore(c, t, generateKey(DataQueryEndpoint, call.arg))
    ELSE LET plan == PlanOf(call)
         IN  MrBeginStore(c, t, plan.endpoint, plan.params, plan.cacheEnabled)

\* the outbound request a frame that awaits fetch has sent
RequestOf(frame) ==
    CASE frame.via = "queryData.POST" -> PostRequest(frame)
      [] frame.via = "getDownloadUrl.HEAD" -> HeadRequest(frame)
      [] OTHER -> GetRequest(frame)

---------------------------------------------------------------------------
(* Spec: the client serving tool calls one after another.                  *)

Init ==
    /\ cache = EmptyMap
    /\ now = 0
    /\ ret = NoRet
    /\ sweptAt = <<>>
    /\ keyIn = <<>>
    /\ keyOut = <<>>
    /\ ClientIdle

Running == req.pc \in {"fetch", "wait"}

\* A tool call arrives: the operation runs up to its first await.
StartCall ==
    /\ top = NoTop
    /\ calls < MaxCalls
    /\ \E call \in PlannerCalls :
         LET frame == BeginOf(call, cache, now) IN
           /\ top' = call
           /\ req' = frame
           /\ cache' = BeginStoreOf(call, cache, now)
           /\ sent' = IF frame.pc = "fetch" THEN RequestOf(frame) ELSE NoSent
           /\ nSent' = IF frame.pc = "fetch" THEN 1 ELSE 0
           /\ inflight' = IF frame.pc = "fetch" THEN inflight + 1 ELSE inflight
    /\ calls' = calls + 1
    /\ lastResp' = NoResp
    /\ waits' = <<>>
    /\ UNCHANGED <<now, res, srch, apiVars, keyVars,
                 walk, peer, ends>>

\* The remote service answers the outstanding request (or the connection
\* fails), and the call runs on to its next await or to its end.
FetchResponds ==
    /\ req.pc = "fetch"
    /\ \E r \in ResponsesFor(req.endpoint) :
         LET frame == IF req.via = "makeRequest" THEN MrSettle(req, r, r.data)
                      ELSE DirectSettle(req, r, r.data)
         IN  /\ req' = frame
             /\ lastResp' = Seen(r)
             /\ cache' = IF frame.pc = "returned" /\ req.cacheEnabled
                           THEN CacheSet(cache, now, req.cacheKey, r.data, req.cacheTtl)
                           ELSE cache
             /\ waits' = IF frame.pc = "wait" THEN Append(waits, BackoffDelay(req.attempt))
                         ELSE waits
    /\ inflight' = inflight - 1
    /\ UNCHANGED <<now, top, calls, sent, nSent, res, srch, apiVars, keyVars,
                 walk, peer, ends>>

\* The tool call has ended: its result goes to the caller, its frame is dropped.
EndCall ==
    /\ top # NoTop
    /\ ~Running
    /\ top' = NoTop
    /\ req' = NoReq
    /\ lastResp' = NoResp
    /\ waits' = <<>>
    /\ sent' = NoSent
    /\ nSent' = 0
    /\ res' = NoRes
    /\ UNCHANGED inflight
    /\ UNCHANGED <<cache, now, calls, srch, apiVars, keyVars,
                 walk, peer, ends>>

\* client.ts:92, 65-67  the backoff timer fires: the loop sends the next attempt
TimerFires ==
    /\ req.pc = "wait"
    /\ req' = [req EXCEPT !.pc = "fetch", !.attempt = req.attempt + 1]
    /\ UNCHANGED now
    /\ sent' = RequestOf(req)
    /\ nSent' = nSent + 1
    /\ inflight' = inflight + 1
    /\ lastResp' = NoResp
    /\ UNCHANGED <<cache, top, calls, waits, res, srch, apiVars, keyVars,
                 walk, peer, ends>>

\* The clock advances. The client's clock is read in steps of 30 min: the
\* ttls of the client are multiples of it, so an entry is met at an age
\* below, equal to and above its ttl. At this resolution a tool call, which
\* lasts a few seconds, starts and ends at one clock value.
ClientTick ==
    /\ top = NoTop
    /\ now \div DataQueryTtl < MaxCoarse
    /\ now' = now + DataQueryTtl
    /\ UNCHANGED <<cache, clientVars, apiVars, keyVars,
                 walk, peer, ends>>

\* client.ts:26-28  the interval timer runs cleanup(), at any moment from
\* the first period on, also while a tool call awaits
Sweep ==
    /\ now >= CleanupInterval
    /\ cache' = CacheCleanup(cache, now)
    /\ UNCHANGED <<now, clientVars, apiVars, keyVars,
                 walk, peer, ends>>

Next ==
    \/ StartCall
    \/ FetchResponds
    \/ TimerFires
    \/ EndCall
    \/ ClientTick
    \/ Sweep

Spec == Init /\ [][Next]_vars

\* Spec with its progress: every outstanding fetch is settled in the end (the
\* remote service answers or the connection fails), and every backoff timer
\* set by setTimeout fires (client.ts:92).
SpecLive == Spec /\ WF_vars(FetchResponds) /\ WF_vars(TimerFires)

---------------------------------------------------------------------------
(* The location resolver: NeonApiClient.findTowersAtSite.                  *)

\* String.prototype.toUpperCase and toLowerCase on the names and
\* descriptions of Catalogs
ToUpperCase(s) == CASE s = "srer tower" -> "SRER TOWER" [] OTHER -> s

ToLowerCase(s) ==
    CASE s = "Santa Rita" -> "santa rita"
      [] s = "Tower" -> "tower"
      [] s = "Eddy flux" -> "eddy flux"
      [] OTHER -> s

\* String.prototype.includes on the converted strings
Includes(s, sub) ==
    <<s, sub>> \in {<<"SRER TOWER", "TOWER">>, <<"TOWER", "TOWER">>, <<"tower", "tower">>,
                    <<"eddy flux", "flux">>}

HasField(loc, f) == f \in DOMAIN loc

\* mutant: the filter selects towers of every site
IsTowerAnySite(loc, siteCode) ==
    \/ loc.locationType = "TOWER"
    \/ Includes(ToUpperCase(loc.locationName), "TOWER")
    \/ /\ HasField(loc, "locationDescription")
       /\ \/ Includes(ToLowerCase(loc.locationDescription), "tower")
          \/ Includes(ToLowerCase(loc.locationDescription), "flux")

\* client.ts:201-205  the filter's predicate
IsTower(loc, siteCode) ==
    /\ loc.siteCode = siteCode
    /\ \/ loc.locationType = "TOWER"
       \/ Includes(ToUpperCase(loc.locationName), "TOWER")
       \/ Includes(ToLowerCase(loc.locationDescription), "tower")
       \/ Includes(ToLowerCase(loc.locationDescription), "flux")

\* client.ts:201-205  the predicate reads a field of undefined: a TypeError
IsTowerThrows(loc, siteCode) ==
    /\ loc.siteCode = siteCode
    /\ loc.locationType # "TOWER"
    /\ ~Includes(ToUpperCase(loc.locationName), "TOWER")
    /\ ~HasField(loc, "locationDescription")

\* what a strategy got back from a lookup: the value, or a failure
JsFailed == [t |-> "error"]

Outcome(q) == IF q.pc = "thrown" THEN JsFailed ELSE q.value

\* mutant: the location found by name is taken whatever its site
TowerAtSiteUnchecked(q, siteCode) ==
    q.pc = "returned" /\ q.value.t = "location"

\* client.ts:189-195, 223-229  the lookup came back with a location of the
\* site; a failed lookup, and the TypeError of reading null, are caught
TowerAtSite(q, siteCode) ==
    q.pc = "returned" /\ q.value.t = "location" /\ q.value.siteCode = siteCode

\* mutant: the outer handler lets the error through
OuterCatchRethrows(r) == [r EXCEPT !.pc = "thrown"]

\* client.ts:234-237  the outer handler: warn and return []
OuterCatch(r) == [r EXCEPT !.pc = "returned", !.value = <<>>]

\* client.ts:199  the resolver turns to the catalog
ToCatalog(r) == [r EXCEPT !.pc = "catalog", !.lookups = Append(r.lookups, CatalogEndpoint)]

\* client.ts:221-223  the resolver looks up the i-th possible name
ToGuess(r, i) ==
    [r EXCEPT !.pc = "guess", !.idx = i,
              !.lookups = Append(r.lookups,
                                 LocationEndpoint(PossibleTowerNames(r.siteCode)[i]))]

\* client.ts:184-199  the call up to its first await
ResolverBegin(siteCode) ==
    IF siteCode = "SRER"
      THEN [NoRes EXCEPT !.pc = "direct", !.siteCode = siteCode,
                         !.lookups = <<LocationEndpoint("TOWER104454")>>]
      ELSE ToCatalog([NoRes EXCEPT !.siteCode = siteCode])

\* client.ts:189-199  the direct lookup q has ended
DirectDone(r, q) ==
    LET seen == [r EXCEPT !.direct = <<Outcome(q)>>]
    IN  IF TowerAtSite(q, r.siteCode)
          THEN [seen EXCEPT !.pc = "returned", !.value = <<q.value>>]
          ELSE ToCatalog(seen)

\* mutant: the possible names are looked up whatever the filter found
CatalogDoneAlwaysGuesses(r, q) ==
    ToGuess([r EXCEPT !.catalog = <<Outcome(q)>>], 1)

\* client.ts:199-223, 233-237  the catalog lookup q has ended
CatalogDone(r, q) ==
    LET seen == [r EXCEPT !.catalog = <<Outcome(q)>>]
    IN  IF q.pc = "thrown" \/ q.value.t # "array" THEN OuterCatch(seen)
        ELSE IF \E i \in 1..Len(q.value.items) : IsTowerThrows(q.value.items[i], r.siteCode)
          THEN OuterCatch(seen)
        ELSE LET towers == SelectSeq(q.value.items, LAMBDA loc : IsTower(loc, r.siteCode))
             IN  IF Len(towers) = 0 THEN ToGuess(seen, 1)
                 ELSE [seen EXCEPT !.pc = "returned", !.towers = towers, !.value = towers]

\* mutant: a failed lookup of a possible name ends the call with []
GuessDoneAbortsOnFailure(r, q) ==
    LET towers == IF TowerAtSite(q, r.siteCode) THEN Append(r.towers, q.value) ELSE r.towers
        seen == [r EXCEPT !.guessed = Append(r.guessed, Outcome(q)), !.towers = towers]
    IN  IF q.pc = "thrown" THEN OuterCatch(seen)
        ELSE IF r.idx < Len(PossibleTowerNames(r.siteCode)) THEN ToGuess(seen, r.idx + 1)
        ELSE [seen EXCEPT !.pc = "returned", !.value = towers]

\* client.ts:221-233  the lookup q of the idx-th possible name has ended
GuessDone(r, q) ==
    LET towers == IF TowerAtSite(q, r.siteCode) THEN Append(r.towers, q.value) ELSE r.towers
        seen == [r EXCEPT !.guessed = Append(r.guessed, Outcome(q)), !.towers = towers]
    IN  IF r.idx < Len(PossibleTowerNames(r.siteCode)) THEN ToGuess(seen, r.idx + 1)
        ELSE [seen EXCEPT !.pc = "returned", !.value = towers]

ResolverNext(r, q) ==
    CASE r.pc = "direct" -> DirectDone(r, q)
      [] r.pc = "catalog" -> CatalogDone(r, q)
      [] r.pc = "guess" -> GuessDone(r, q)

ResolverAwaits(r) == r.pc \in {"direct", "catalog", "guess"}

\* mutant: the caller goes on while the request is outstanding
SettledOrPending(q) == q.pc \in {"returned", "thrown", "fetch"}

\* client.ts:189, 199, 223  await: the caller goes on when the call it
\* awaits has ended, with a value or with an error
Settled(q) == q.pc \in {"returned", "thrown"}

\* client.ts:164-182  a lookup: makeRequest on the endpoint with the
\* parameters, cached under the default ttl, up to its first await
LookupWith(endpoint, params) ==
    LET frame == MrBegin(cache, now, endpoint, params, TRUE, <<>>) IN
      /\ req' = frame
      /\ cache' = MrBeginStore(cache, now, endpoint, <<>>, TRUE)
      /\ sent' = IF frame.pc = "fetch" THEN RequestOf(frame) ELSE sent
      /\ nSent' = IF frame.pc = "fetch" THEN nSent + 1 ELSE nSent
      /\ inflight' = IF frame.pc = "fetch" THEN inflight + 1 ELSE inflight
      /\ lastResp' = NoResp
      /\ waits' = <<>>

\* client.ts:164-175  getSiteLocations and getLocation(name): a lookup
\* without parameters
Lookup(endpoint) == LookupWith(endpoint, <<>>)

---------------------------------------------------------------------------
(* SpecResolver: one findTowersAtSite call on a fresh client.              *)

StartResolve ==
    /\ top = NoTop
    /\ calls = 0
    /\ \E site \in ResolverSites :
         LET r == ResolverBegin(site) IN
           /\ top' = [op |-> "findTowersAtSite", arg |-> <<Param("siteCode", JsStr(site))>>]
           /\ res' = r
           /\ Lookup(r.lookups[Len(r.lookups)])
    /\ calls' = calls + 1
    /\ UNCHANGED <<now, srch, apiVars, keyVars,
                 walk, peer, ends>>

\* The lookup the resolver awaits has ended: the resolver runs on to its
\* next await or to its end.
ResolverStep ==
    /\ ResolverAwaits(res)
    /\ Settled(req)
    /\ LET r == ResolverNext(res, req) IN
         /\ res' = r
         /\ IF ResolverAwaits(r) THEN Lookup(r.lookups[Len(r.lookups)])
            ELSE UNCHANGED <<cache, reqVars>>
    /\ UNCHANGED <<now, top, calls, srch, apiVars, keyVars,
                 walk, peer, ends>>

NextResolver ==
    \/ StartResolve
    \/ FetchResponds
    \/ TimerFires
    \/ ResolverStep

SpecResolver == Init /\ [][NextResolver]_vars

---------------------------------------------------------------------------
(* The cross-site search: NeonApiClient.searchLocationsByType without a    *)
(* site.                                                                   *)

\* client.ts:251  siteLocations.slice(0, 10)
SearchCap == 10

Slice(list) == SubSeq(list, 1, IF Len(list) < SearchCap THEN Len(list) ELSE SearchCap)

\* client.ts:261-264  the handler of the search: warn and return []
SearchCatch(sr) == [sr EXCEPT !.pc = "returned", !.value = <<>>]

\* client.ts:251-253  the search turns to the i-th site of the prefix
ToSite(sr, i) ==
    [sr EXCEPT !.pc = "site", !.idx = i, !.examined = Append(sr.examined, sr.sites[i])]

\* client.ts:248-253, 260-264  the catalog lookup q of the search has ended
SearchCatalogDone(sr, q) ==
    IF q.pc = "thrown" \/ q.value.t # "array" THEN SearchCatch(sr)
    ELSE LET prefix == Slice(q.value.items)
             seen == [sr EXCEPT !.sites = [i \in 1..Len(prefix) |-> prefix[i].siteCode]]
         IN  IF Len(prefix) = 0 THEN [seen EXCEPT !.pc = "returned", !.value = <<>>]
             ELSE ToSite(seen, 1)

\* client.ts:251-260  the findTowersAtSite call r for the idx-th site has ended
SearchSiteDone(sr, r) ==
    LET matching == IF r.pc = "returned" THEN sr.matching \o r.value ELSE sr.matching
        seen == [sr EXCEPT !.matching = matching]
    IN  IF sr.idx < Len(sr.sites) THEN ToSite(seen, sr.idx + 1)
        ELSE [seen EXCEPT !.pc = "returned", !.value = matching]

\* client.ts:253, 184-199  the search calls findTowersAtSite for the site it
\* has turned to
CallResolver(sr) ==
    LET r == ResolverBegin(sr.sites[sr.idx]) IN
      /\ res' = r
      /\ Lookup(r.lookups[Len(r.lookups)])

---------------------------------------------------------------------------
(* SpecSearch: one searchLocationsByType call without a site, on a fresh   *)
(* client.                                                                 *)

StartSearch ==
    /\ top = NoTop
    /\ calls = 0
    /\ top' = [op |-> "searchLocationsByType",
               arg |-> <<Param("locationType", JsStr("TOWER"))>>]
    /\ srch' = [NoSrch EXCEPT !.pc = "catalog"]
    /\ Lookup(CatalogEndpoint)
    /\ calls' = calls + 1
    /\ UNCHANGED <<now, res, apiVars, keyVars,
                 walk, peer, ends>>

\* The catalog lookup of the search has ended.
SearchCatalogStep ==
    /\ srch.pc = "catalog"
    /\ req.pc \in {"returned", "thrown"}
    /\ LET sr == SearchCatalogDone(srch, req) IN
         /\ srch' = sr
         /\ IF sr.pc = "site" THEN CallResolver(sr)
            ELSE UNCHANGED <<cache, res, reqVars>>
    /\ UNCHANGED <<now, top, calls, apiVars, keyVars,
                 walk, peer, ends>>

\* The findTowersAtSite call for a site has ended.
SearchSiteStep ==
    /\ srch.pc = "site"
    /\ res.pc \in {"returned", "thrown"}
    /\ LET sr == SearchSiteDone(srch, res) IN
         /\ srch' = sr
         /\ IF sr.pc = "site" THEN CallResolver(sr)
            ELSE UNCHANGED <<cache, res, reqVars>>
    /\ UNCHANGED <<now, top, calls, apiVars, keyVars,
                 walk, peer, ends>>

NextSearch ==
    \/ StartSearch
    \/ FetchResponds
    \/ TimerFires
    \/ ResolverStep
    \/ SearchCatalogStep
    \/ SearchSiteStep

SpecSearch == Init /\ [][NextSearch]_vars

---------------------------------------------------------------------------
(* The hierarchy walk: the handler of neon_get_location_hierarchy          *)
(* (src/unnamed/part_004:238-274).                                         *)

\* part_004:251  the handler looks up the first 20 children
HierarchyCap == 20

\* part_004:251  location.locationChildren.slice(0, 20)
SliceChildren(list) ==
    SubSeq(list, 1, IF Len(list) < HierarchyCap THEN Len(list) ELSE HierarchyCap)

\* part_001:373-384, part_004:247  formatLocation reads the coordinates of
\* the location: a TypeError when the payload is no location or has none
FormatLocationThrows(v) == v.t # "location" \/ v.locationDecimalLatitude = <<>>

\* part_004:251-253  the handler looks up the i-th child
ToChild(w, i) ==
    [w EXCEPT !.pc = "child", !.idx = i, !.expanded = Append(w.expanded, w.children[i])]

\* part_004:245-251, 271, 341-353  the lookup q of the hierarchy has ended;
\* the loop runs under location.locationChildren && its length > 0
WalkRootDone(w, q) ==
    IF q.pc = "thrown" \/ FormatLocationThrows(q.value) THEN [w EXCEPT !.pc = "failed"]
    ELSE IF q.value.locationChildren # <<>> /\ Len(q.value.locationChildren[1]) > 0
      THEN ToChild([w EXCEPT !.children = q.value.locationChildren[1]], 1)
    ELSE [w EXCEPT !.pc = "returned"]

\* part_004:251-271  the lookup of the idx-th child has ended, with a value
\* or with an error the loop catches
WalkChildDone(w, q) ==
    IF w.idx < Len(SliceChildren(w.children)) THEN ToChild(w, w.idx + 1)
    ELSE [w EXCEPT !.pc = "returned"]

---------------------------------------------------------------------------
(* SpecHandlers: one tool call on a fresh client, findTowersAtSite or      *)
(* neon_get_location_hierarchy.                                            *)

\* part_004:238-245, client.ts:177-182  the handler up to its first await:
\* getLocationHierarchy(locationName) without a locationType
StartWalk ==
    /\ top = NoTop
    /\ calls = 0
    /\ top' = [op |-> "neon_get_location_hierarchy",
               arg |-> <<Param("locationName", JsStr(WalkRoot))>>]
    /\ walk' = [NoWalk EXCEPT !.pc = "root"]
    /\ LookupWith(LocationEndpoint(WalkRoot), <<Param("hierarchy", JsBool(TRUE))>>)
    /\ calls' = calls + 1
    /\ UNCHANGED <<now, res, srch, peer, ends, apiVars, keyVars>>

\* The lookup the handler awaits has ended: the handler runs on to its next
\* await or to its end.
WalkStep ==
    /\ walk.pc \in {"root", "child"}
    /\ Settled(req)
    /\ LET w == IF walk.pc = "root" THEN WalkRootDone(walk, req)
                ELSE WalkChildDone(walk, req) IN
         /\ walk' = w
         /\ IF w.pc = "child" THEN Lookup(LocationEndpoint(w.children[w.idx]))
            ELSE UNCHANGED <<cache, reqVars>>
    /\ UNCHANGED <<now, top, calls, res, srch, peer, ends, apiVars, keyVars>>

NextHandlers ==
    \/ StartResolve
    \/ StartWalk
    \/ FetchResponds
    \/ TimerFires
    \/ ResolverStep
    \/ WalkStep

SpecHandlers == Init /\ [][NextHandlers]_vars

---------------------------------------------------------------------------
(* SpecBackoff: one makeRequest call of a client whose retryAttempts is    *)
(* configured to any number from 1 to MaxAttempts.                         *)

ReleasesEndpoint == "/api/v0/releases"

\* the retryAttempts the call in progress runs with
ConfiguredAttempts == ObjGet(top.arg, "retryAttempts").n

\* client.ts:19, 298-300  a client with retryAttempts = n serves getReleases
StartBackoff ==
    /\ top = NoTop
    /\ calls = 0
    /\ \E n \in 1..MaxAttempts :
         top' = [op |-> "getReleases", arg |-> <<Param("retryAttempts", JsNum(n))>>]
    /\ LET frame == MrBegin(cache, now, ReleasesEndpoint, <<>>, TRUE, <<>>) IN
         /\ req' = frame
         /\ cache' = MrBeginStore(cache, now, ReleasesEndpoint, <<>>, TRUE)
         /\ sent' = GetRequest(frame)
         /\ nSent' = 1
         /\ inflight' = inflight + 1
    /\ calls' = calls + 1
    /\ lastResp' = NoResp
    /\ waits' = <<>>
    /\ UNCHANGED <<now, res, srch, apiVars, keyVars,
                 walk, peer, ends>>

\* The remote service answers: one turn of the loop under the configured
\* retryAttempts.
BackoffResponds ==
    /\ top.op = "getReleases"
    /\ req.pc = "fetch"
    /\ \E r \in ResponsesFor(req.endpoint) :
         LET frame == MrSettleOf(ConfiguredAttempts, req, r, r.data)
         IN  /\ req' = frame
             /\ lastResp' = Seen(r)
             /\ cache' = IF frame.pc = "returned"
                           THEN CacheSet(cache, now, req.cacheKey, r.data, req.cacheTtl)
                           ELSE cache
             /\ waits' = IF frame.pc = "wait" THEN Append(waits, BackoffDelay(req.attempt))
                         ELSE waits
    /\ inflight' = inflight - 1
    /\ UNCHANGED <<now, top, calls, sent, nSent, res, srch, apiVars, keyVars,
                 walk, peer, ends>>

NextBackoff ==
    \/ StartBackoff
    \/ BackoffResponds
    \/ TimerFires

SpecBackoff == Init /\ [][NextBackoff]_vars

---------------------------------------------------------------------------
(* SpecPair: two getProducts() calls on a fresh client, the second         *)
(* starting at any moment after the first: while the first awaits its      *)
(* response or its timer, or after it has ended. Each step is the code one *)
(* call runs between two awaits; the steps of the two calls interleave.    *)

\* client.ts:101-104  getProducts() without a release
PairEndpoint == "/api/v0/products"

FrameOf(who) == IF who = "req" THEN req ELSE peer

\* The first call arrives and runs up to its first await.
PairStart ==
    /\ top = NoTop
    /\ calls = 0
    /\ top' = [op |-> "getProducts", arg |-> <<>>]
    /\ calls' = 1
    /\ LookupWith(PairEndpoint, <<>>)
    /\ UNCHANGED <<now, res, srch, walk, peer, ends, apiVars, keyVars>>

\* The second call arrives and runs up to its first await.
PeerStart ==
    /\ calls = 1
    /\ calls' = 2
    /\ LET frame == MrBegin(cache, now, PairEndpoint, <<>>, TRUE, <<>>) IN
         /\ peer' = frame
         /\ cache' = MrBeginStore(cache, now, PairEndpoint, <<>>, TRUE)
         /\ sent' = IF frame.pc = "fetch" THEN RequestOf(frame) ELSE sent
         /\ nSent' = IF frame.pc = "fetch" THEN nSent + 1 ELSE nSent
         /\ inflight' = IF frame.pc = "fetch" THEN inflight + 1 ELSE inflight
    /\ UNCHANGED <<now, top, req, lastResp, waits, res, srch, walk, ends, apiVars, keyVars>>

\* client.ts:67-97  the remote service answers the outstanding request of
\* one of the calls, and that call runs on to its next await or to its end
PairResponds ==
    \E who \in {"req", "peer"} :
      /\ FrameOf(who).pc = "fetch"
      /\ \E r \in ResponsesFor(PairEndpoint) :
           LET old == FrameOf(who)
               frame == MrSettle(old, r, r.data)
           IN  /\ IF who = "req" THEN req' = frame /\ UNCHANGED peer
                                 ELSE peer' = frame /\ UNCHANGED req
               /\ lastResp' = Seen(r)
               /\ cache' = IF frame.pc = "returned"
                             THEN CacheSet(cache, now, old.cacheKey, r.data, old.cacheTtl)
                             ELSE cache
               /\ waits' = IF frame.pc = "wait" THEN Append(waits, BackoffDelay(old.attempt))
                           ELSE waits
               /\ ends' = IF frame.pc = "wait" THEN ends
                          ELSE Append(ends, [who |-> who, at |-> now,
                                             ok |-> frame.pc = "returned", value |-> r.data,
                                             overlap |-> (IF who = "req" THEN peer ELSE req).pc
                                                          \in {"fetch", "wait"}])
      /\ inflight' = inflight - 1
      /\ UNCHANGED <<now, top, calls, sent, nSent, res, srch, walk, apiVars, keyVars>>

\* client.ts:92, 65-67  the backoff timer of one of the calls fires
PairTimer ==
    \E who \in {"req", "peer"} :
      /\ FrameOf(who).pc = "wait"
      /\ LET frame == [FrameOf(who) EXCEPT !.pc = "fetch", !.attempt = @ + 1] IN
           /\ IF who = "req" THEN req' = frame /\ UNCHANGED peer
                             ELSE peer' = frame /\ UNCHANGED req
           /\ sent' = RequestOf(frame)
      /\ nSent' = nSent + 1
      /\ inflight' = inflight + 1
      /\ UNCHANGED <<cache, now, top, calls, lastResp, waits, res, srch, walk, ends, apiVars,
                     keyVars>>

\* The clock advances by 1 ms, also while the calls await.
PairTick ==
    /\ now < MaxFine
    /\ now' = now + 1
    /\ UNCHANGED <<cache, clientVars, apiVars, keyVars>>

NextPair ==
    \/ PairStart
    \/ PeerStart
    \/ PairResponds
    \/ PairTimer
    \/ PairTick

SpecPair == Init /\ [][NextPair]_vars

---------------------------------------------------------------------------
(* Claims about ApiCache, checked under SpecCache.                         *)

\* C1: get(key) returns the stored value exactly when an entry for key exists
\* and now - storedAt <= ttl (an age equal to the ttl is still served), and
\* then leaves the store alone; when the entry exists and now - storedAt > ttl
\* it returns null and the entry is gone afterwards, the other entries staying;
\* when there is no entry it returns null.
C1_GetServesExactlyUnexpired ==
    [][ret'.op = "get" =>
         LET k == ret'.key IN
           IF k \notin DOMAIN cache
             THEN ret'.val = JsNull /\ cache' = cache
           ELSE IF now - cache[k].timestamp <= cache[k].ttl
             THEN ret'.val = cache[k].data /\ cache' = cache
           ELSE /\ ret'.val = JsNull
                /\ DOMAIN cache' = (DOMAIN cache) \ {k}
                /\ \A x \in DOMAIN cache' : cache'[x] = cache[x]]_vars

\* C1 witness: a get has just served an entry whose age equals its ttl.
C1_Witness ==
    /\ ret.op = "get"
    /\ ret.key \in DOMAIN cache
    /\ now - cache[ret.key].timestamp = cache[ret.key].ttl
    /\ ret.val = cache[ret.key].data
    /\ ret.val # JsNull

\* C2 as stated: for every ttl, set(key, v, ttl) directly followed by
\* get(key) returns v.
C2_RoundTripEveryTtl ==
    [][(ret.op = "set" /\ ret'.op = "get" /\ ret'.key = ret.key)
         => ret'.val = ret.val]_vars

\* C2 amended: for every ttl that is omitted, zero or positive,
\* set(key, v, ttl) directly followed by get(key) returns v.
C2_RoundTripNonNegativeTtl ==
    [][(ret.op = "set" /\ ret'.op = "get" /\ ret'.key = ret.key
          /\ (ret.ttl = <<>> \/ ret.ttl[1] >= 0))
         => ret'.val = ret.val]_vars

\* C2 witness: a get directly after a set of the same key returned the falsy
\* value that was written.
C2_Witness ==
    /\ ret.op = "get"
    /\ ret.flag
    /\ ret.val = JsZero

\* C9 as stated: a cleanup() that follows a cleanup() with no set() between
\* removes nothing.
C9_SweepTwiceRemovesNothing ==
    [][(sweptAt # <<>> /\ ret'.op = "cleanup")
         => DOMAIN cache' = DOMAIN cache]_vars

\* C9 amended: a cleanup() that follows a cleanup() with no set() between and
\* at the same clock value removes nothing.
C9_SweepTwiceSameClockRemovesNothing ==
    [][(sweptAt = <<now>> /\ ret'.op = "cleanup")
         => (cache' = cache /\ ret'.val = JsZero)]_vars

\* C9 witness: the second of two cleanups at one clock value has run on a
\* store that still holds an entry.
C9_Witness ==
    /\ ret.op = "cleanup"
    /\ ret.flag
    /\ DOMAIN cache # {}

\* an entry is a record of value, storedAt and ttl, stored not after now
WellFormed(e, t) ==
    /\ DOMAIN e = {"data", "timestamp", "ttl"}
    /\ e.timestamp \in 0..t
    /\ e.ttl \in Int

\* C20: in every interleaving of cleanup() with the get and set steps of
\* any number of callers and with the clock, a cleanup() run removes only
\* entries whose age exceeds their ttl at that moment, and leaves every other
\* entry as written; and every key of the store maps to one well-formed entry.
C20_SweepRemovesOnlyExpired ==
    /\ [](\A k \in DOMAIN cache : WellFormed(cache[k], now))
    /\ [][ret'.op = "cleanup" =>
            /\ DOMAIN cache' \subseteq DOMAIN cache
            /\ \A k \in DOMAIN cache' : cache'[k] = cache[k]
            /\ \A k \in (DOMAIN cache) \ (DOMAIN cache') :
                 now - cache[k].timestamp > cache[k].ttl]_vars

\* C20 witness: a cleanup() run has removed an entry and kept another, which
\* was written with a positive ttl and is at most as old as that.
C20_Witness ==
    /\ ret.op = "cleanup"
    /\ ret.val = JsNum(1)
    /\ \E k \in DOMAIN cache :
         cache[k].ttl > 0 /\ now - cache[k].timestamp <= cache[k].ttl /\ cache[k].timestamp < now

\* the entries of store c that are not expired at clock value t
Unexpired(c, t) ==
    [k \in {x \in DOMAIN c : t - c[x].timestamp <= c[x].ttl} |-> c[k]]

\* C22: cleanup() removes exactly the expired entries: after a run at clock
\* value now the store holds precisely the entries it held before whose age
\* now - storedAt is at most their ttl, each with the value, storedAt and ttl
\* it had.
C22_SweepRemovesExactlyExpired ==
    [][ret'.op = "cleanup" => cache' = Unexpired(cache, now)]_vars

\* C22 witness: a cleanup() run has removed one entry and has kept an entry
\* whose age equals its ttl.
C22_Witness ==
    /\ ret.op = "cleanup"
    /\ ret.val = JsNum(1)
    /\ \E k \in DOMAIN cache : now - cache[k].timestamp = cache[k].ttl

---------------------------------------------------------------------------
(* Claims about generateKey, checked under SpecKey.                        *)

\* C3: two parameter objects that hold the same name/value pairs, in
\* whatever insertion order, get the same cache key for the same endpoint.
C3_KeyIgnoresParameterOrder ==
    (keyOut # <<>> /\ SamePairs(keyIn.p1, keyIn.p2)) => keyOut[1] = keyOut[2]

\* C3 witness: the keys of two objects with the same pairs in different
\* insertion order have been computed.
C3_Witness ==
    /\ keyOut # <<>>
    /\ SamePairs(keyIn.p1, keyIn.p2)
    /\ keyIn.p1 # keyIn.p2
    /\ keyOut[1] = keyIn.endpoint \o "?siteCode=ABBY&siteCodes=ABBY,SRER"

\* P without its properties whose value is undefined
Defined(p) == SelectSeq(p, LAMBDA e : e.value.t # "undefined")

\* C16 as stated: a property whose value is undefined does not affect the
\* cache key: when P2 is P1 without its undefined properties, the two keys
\* are equal.
C16_UndefinedLeftOutOfKey ==
    (keyOut # <<>> /\ keyIn.p2 = Defined(keyIn.p1)) => keyOut[1] = keyOut[2]

\* P1 and P2 carry the same names, and for at least one name different values
DifferInValue(p1, p2) ==
    /\ {p1[i].name : i \in 1..Len(p1)} = {p2[i].name : i \in 1..Len(p2)}
    /\ \E i \in 1..Len(p1) : \E j \in 1..Len(p2) :
         p1[i].name = p2[j].name /\ p1[i].value # p2[j].value

\* C17 as stated: two parameter objects that differ in the value of at least
\* one parameter get different cache keys.
C17_KeySeparatesValues ==
    (keyOut # <<>> /\ DifferInValue(keyIn.p1, keyIn.p2)) => keyOut[1] # keyOut[2]

---------------------------------------------------------------------------
(* Claims about the request executor and the query planner, under Spec.    *)

\* the outbound attempts the current makeRequest call has made
Attempts == IF req.pc = "none" THEN 0 ELSE req.attempt + 1

\* C4 as stated: a makeRequest call whose request is answered with a 4xx
\* status fails at once with that error: it does not wait and makes no
\* further attempt.
C4_ClientErrorIsNotRetried ==
    (req.via = "makeRequest" /\ lastResp.status >= 400 /\ lastResp.status <= 499)
      => (req.pc = "thrown" /\ Len(waits) = req.attempt)

\* C5: a makeRequest call makes at most 3 outbound attempts; the wait after
\* its k-th failed attempt is 1000 * k ms, so the waits increase strictly;
\* and once an attempt has succeeded the call sends nothing more.
C5_BoundedLinearBackoff ==
    /\ [](req.via = "makeRequest" =>
            /\ Attempts <= RetryAttempts
            /\ Len(waits) <= RetryAttempts - 1
            /\ Len(waits) \in {Attempts - 1, Attempts}
            /\ \A k \in 1..Len(waits) : waits[k] = RetryDelay * k
            /\ \A j, k \in 1..Len(waits) : j < k => waits[j] < waits[k])
    /\ [][(req.via = "makeRequest" /\ req.pc = "returned" /\ top' = top)
            => (nSent' = nSent /\ req' = req)]_vars

\* C5 witness: three attempts have failed transiently, with waits of 1000 ms
\* and 2000 ms between them.
C5_Witness ==
    /\ req.via = "makeRequest"
    /\ req.pc = "thrown"
    /\ Attempts = 3
    /\ nSent = 3
    /\ waits = <<1000, 2000>>
    /\ lastResp.status = 500

\* the sites a data query names, through siteCode and siteCodes together
SitesOf(params) ==
    (IF ObjHas(params, "siteCode") /\ ObjGet(params, "siteCode").t = "string"
       THEN {ObjGet(params, "siteCode").s} ELSE {})
      \cup (IF ObjHas(params, "siteCodes")
              THEN {ObjGet(params, "siteCodes").items[i] :
                      i \in 1..Len(ObjGet(params, "siteCodes").items)}
              ELSE {})

\* C6 as stated: a data query that names more than one site goes out as a
\* POST with the parameters as JSON body, one that names at most one site as
\* a GET with query parameters.
C6_TransportFollowsSiteCount ==
    (top.op = "queryData" /\ nSent > 0) =>
      IF Cardinality(SitesOf(top.arg)) > 1
        THEN sent.method = "POST" /\ sent.body # <<>> /\ sent.query = <<>>
        ELSE sent.method = "GET" /\ sent.body = <<>>

\* C10 as stated: when the store holds an unexpired entry for the cache key
\* of a cacheable operation at call time, the call returns that entry's value
\* and sends nothing.
C10_ValidEntryIsServed ==
    (req.cacheEnabled /\ req.held # <<>>)
      => (req.pc = "returned" /\ req.value = req.held[1] /\ nSent = 0)

\* the response to the last attempt of a makeRequest call is a failure
FailedResponse ==
    /\ req.via = "makeRequest"
    /\ req.pc \in {"wait", "thrown"}
    /\ lastResp.status \in {0, 404, 500}

\* C11 as stated: whether makeRequest retries a failed response depends only
\* on the HTTP status: after a 4xx response the call has failed, without a
\* wait; after a 5xx response or a network failure it waits for a retry, or
\* has failed only because that was its last attempt; whatever the body holds.
C11_ClassifiedByHttpStatus ==
    FailedResponse =>
      IF lastResp.status \div 100 = 4
        THEN req.pc = "thrown"
        ELSE req.pc = "wait" \/ req.attempt = RetryAttempts - 1

\* C12 as stated: whatever the operation and its transport, a call fails on
\* a transient failure (a network failure or a 5xx response, the error not
\* marked as a client error) only after three outbound requests.
C12_EveryTransportRetries ==
    (top # NoTop /\ req.pc = "thrown" /\ lastResp.status \in {0, 500} /\ ~lastResp.marker)
      => nSent = RetryAttempts

\* the cache keys of the data queries, in either form
DataQueryKeys ==
    {generateKey(DataQueryEndpoint, p) : p \in DataQueryInputs}
      \cup {generateKey(DataQueryEndpoint, SingleSiteParams(p)) : p \in DataQueryInputs}

\* C13 as stated: every entry in the store that holds a data-query result has
\* a ttl of 30 minutes, on whichever path it was obtained, and every other
\* entry has the default ttl of 1 hour.
C13_TtlPerOperation ==
    \A k \in DOMAIN cache :
      cache[k].ttl = IF k \in DataQueryKeys THEN DataQueryTtl ELSE DefaultTtl

UncachedOps == {"trackSample", "getDownloadUrl"}

\* the cache keys the calls of the uncached operations would have
UncachedKeys ==
    {generateKey("/api/v0/samples/view", call.arg) :
       call \in {c \in PlannerCalls : c.op = "trackSample"}}
      \cup {HeadBegin(call).endpoint : call \in {c \in PlannerCalls : c.op = "getDownloadUrl"}}

\* C14: trackSample and getDownloadUrl are never cached: the store never
\* holds an entry under a key of theirs; a call of theirs starts by sending
\* an outbound request, whatever the store holds, and leaves the store as it
\* is; and no step of such a call changes the store.
C14_SamplesAndDownloadsUncached ==
    /\ [](\A k \in DOMAIN cache : k \notin UncachedKeys)
    /\ [][(top' # top /\ top'.op \in UncachedOps)
            => (cache' = cache /\ req'.pc = "fetch" /\ nSent' = 1)]_vars
    /\ [][(top.op \in UncachedOps /\ req' # req) => cache' = cache]_vars

\* C14 witness: a second tool call, a sample lookup, has returned while the
\* store holds the result of the first; it has sent a request.
C14_Witness ==
    /\ top.op = "trackSample"
    /\ req.pc = "returned"
    /\ calls = 2
    /\ nSent = 1
    /\ cache # EmptyMap
    /\ \A k \in DOMAIN cache : k \notin UncachedKeys

\* C15 as stated: the form of a data query selects its transport: a query
\* that gives a siteCodes list goes out as a POST, also when the list holds
\* exactly one site, and a query that gives only siteCode goes out as a GET.
C15_FormSelectsTransport ==
    (top.op = "queryData" /\ nSent > 0) =>
      IF ObjHas(top.arg, "siteCodes") /\ Len(ObjGet(top.arg, "siteCodes").items) >= 1
        THEN sent.method = "POST"
        ELSE ObjHas(top.arg, "siteCode") => sent.method = "GET"

\* the keys whose entry a step creates or changes
Written == {k \in DOMAIN cache' : k \notin DOMAIN cache \/ cache'[k] # cache[k]}

\* C23: cache entries come only from successful fetches: an entry is created
\* or changed under key k only by the step in which the outbound request of
\* the call whose key is k is answered with a 2xx status, and it holds the
\* payload of that response; a step that ends a call in a client error or in
\* exhausted retries creates no entry and changes none.
C23_EntriesOnlyFromSuccess ==
    [][/\ \A k \in Written :
             /\ req.pc = "fetch"
             /\ k = req.cacheKey
             /\ k = generateKey(req.endpoint, req.params)
             /\ sent.endpoint = req.endpoint
             /\ lastResp'.status >= 200 /\ lastResp'.status <= 299
             /\ req'.pc = "returned"
             /\ cache'[k].data = req'.value
       /\ (req.pc = "fetch" /\ req'.pc = "thrown") => cache' = cache]_vars

\* C23 witness: a call has ended in exhausted retries next to the entry an
\* earlier successful call wrote.
C23_Witness ==
    /\ req.pc = "thrown"
    /\ nSent = RetryAttempts
    /\ req.cacheEnabled
    /\ req.cacheKey \notin DOMAIN cache
    /\ DOMAIN cache # {}

---------------------------------------------------------------------------
(* Claims about progress, under SpecLive and SpecCacheLive.                 *)

\* the call has ended with a value, or with an error made from the response
Completed ==
    \/ req.pc = "returned"
    \/ req.pc = "thrown" /\ req.value.t = "error"

\* C21: every operation terminates: provided every outbound request is
\* answered or fails, a call that awaits a response or a backoff timer
\* eventually ends with a result or with a classified failure, and it never
\* sends more than 3 requests.
C21_EveryCallCompletes ==
    /\ [](nSent <= 3)
    /\ Running ~> Completed

\* C21 witness: a makeRequest call has ended with the result of its third
\* request.
C21_Witness ==
    /\ req.via = "makeRequest"
    /\ req.pc = "returned"
    /\ nSent = 3
    /\ Len(waits) = 2

\* the store holds an expired entry under key k
HoldsExpired(k) == k \in DOMAIN cache /\ Expired(cache[k], now)

\* C28: under a sweep that keeps running, an entry that has expired does
\* not stay in the store: unless it is written again with a ttl it has not
\* outlived, it is removed in the end, also when nobody reads its key.
C28_ExpiredEntriesAreSwept ==
    \A k \in CacheKeys : HoldsExpired(k) ~> ~HoldsExpired(k)

\* C28 witness: one run of cleanup() has removed two expired entries, and
\* the store is empty.
C28_Witness ==
    /\ ret.op = "cleanup"
    /\ ret.val = JsNum(2)
    /\ now > 0
    /\ DOMAIN cache = {}

---------------------------------------------------------------------------
(* Claims about the cross-site search, under SpecSearch.                   *)

\* C19 as stated: a search without a site runs only the catalog filter: the
\* findTowersAtSite calls it makes issue no lookup by name, every outbound
\* request goes to the catalog; and it examines at most 10 sites, the first
\* of the catalog.
C19_CrossSiteCatalogOnly ==
    srch.pc # "none" =>
      /\ \A i \in 1..Len(res.lookups) : res.lookups[i] = CatalogEndpoint
      /\ sent.endpoint \in {NoSent.endpoint, CatalogEndpoint}
      /\ Len(srch.examined) <= SearchCap
      /\ \A i \in 1..Len(srch.examined) : srch.examined[i] = srch.sites[i]

---------------------------------------------------------------------------
(* Claims about the backoff schedule, under SpecBackoff.                   *)

---------------------------------------------------------------------------
(* Claims about the location resolver, under SpecResolver.                 *)

DirectEndpoint == LocationEndpoint("TOWER104454")

\* C7: findTowersAtSite("SRER") first looks up TOWER104454 by name. When
\* that lookup returns a location whose site code is SRER, the result is
\* exactly that one location and the catalog is not consulted; when the site
\* code differs or the lookup fails, the next lookup is the catalog's.
C7_SrerDirectLookup ==
    (res.siteCode = "SRER" /\ res.pc # "none") =>
      /\ res.lookups[1] = DirectEndpoint
      /\ res.direct = <<>> => (res.pc = "direct" /\ Len(res.lookups) = 1)
      /\ res.direct # <<>> =>
           LET d == res.direct[1] IN
             IF d.t = "location" /\ d.siteCode = "SRER"
               THEN /\ res.pc = "returned"
                    /\ res.value = <<d>>
                    /\ res.lookups = <<DirectEndpoint>>
                    /\ sent.endpoint # CatalogEndpoint
               ELSE /\ Len(res.lookups) >= 2
                    /\ res.lookups[2] = CatalogEndpoint

\* C7 witness: the direct lookup has returned the SRER tower and the call
\* has returned it.
C7_Witness ==
    /\ res.siteCode = "SRER"
    /\ res.direct = <<Tower("TOWER104454", "SRER")>>
    /\ res.pc = "returned"
    /\ res.value = <<Tower("TOWER104454", "SRER")>>

\* a location of the site that the catalog's filter selects
Selected(loc, siteCode) ==
    /\ loc.t = "location"
    /\ loc.siteCode = siteCode
    /\ \/ loc.locationType = "TOWER"
       \/ loc.locationName \in {"srer tower"}
       \/ HasField(loc, "locationDescription")
            /\ loc.locationDescription \in {"Tower", "Eddy flux"}

\* no strategy of the call has found a tower of the site
NothingFound ==
    /\ \A i \in 1..Len(res.direct) :
         ~(res.direct[i].t = "location" /\ res.direct[i].siteCode = res.siteCode)
    /\ \A i \in 1..Len(res.catalog) :
         res.catalog[i].t = "array" =>
           \A j \in 1..Len(res.catalog[i].items) :
             ~Selected(res.catalog[i].items[j], res.siteCode)
    /\ \A i \in 1..Len(res.guessed) :
         ~(res.guessed[i].t = "location" /\ res.guessed[i].siteCode = res.siteCode)

\* C8: findTowersAtSite never ends with an error, whatever its lookups do;
\* and when none of its strategies has found a tower its result is the empty
\* collection.
C8_ResolverNeverFails ==
    /\ res.pc # "thrown"
    /\ (res.pc = "returned" /\ NothingFound) => res.value = <<>>

\* C8 witness: the catalog has no tower of the site, the six lookups by name
\* have found none either, one of them having failed, and the call has
\* returned the empty collection.
C8_Witness ==
    /\ res.pc = "returned"
    /\ res.catalog # <<>> /\ res.catalog[1].t = "array"
    /\ Len(res.guessed) = 6
    /\ \E i \in 1..6 : res.guessed[i] = JsFailed
    /\ NothingFound
    /\ res.value = <<>>

\* the number of lookups the call issues before the possible names
ChainHead == IF res.siteCode = "SRER" THEN 2 ELSE 1

\* the outcome o of a lookup by name is a location of the call's site
Accepted(o) == o.t = "location" /\ o.siteCode = res.siteCode

\* C24: the strategies of findTowersAtSite run in priority order, each only
\* when the one before yielded nothing: the catalog is fetched only after
\* the lookup of the known exception (made for SRER alone, and first) came
\* back without an accepted location; a possible name is looked up only
\* after the catalog came back as a list in which the filter selects
\* nothing; and the possible names are looked up in their list order.
C24_ChainInPriorityOrder ==
    /\ res.siteCode = "SRER" /\ Len(res.lookups) >= 1
          => res.lookups[1] = LocationEndpoint("TOWER104454")
    /\ Len(res.lookups) >= ChainHead /\ res.pc # "none"
          => /\ res.lookups[ChainHead] = CatalogEndpoint
             /\ res.siteCode = "SRER"
                   => Len(res.direct) = 1 /\ ~Accepted(res.direct[1])
    /\ Len(res.lookups) > ChainHead
          => /\ Len(res.catalog) = 1
             /\ res.catalog[1].t = "array"
             /\ \A i \in 1..Len(res.catalog[1].items) :
                    ~IsTower(res.catalog[1].items[i], res.siteCode)
    /\ \A i \in 1..(Len(res.lookups) - ChainHead) :
          /\ i <= Len(PossibleTowerNames(res.siteCode))
          /\ res.lookups[ChainHead + i]
                = LocationEndpoint(PossibleTowerNames(res.siteCode)[i])
          /\ Len(res.guessed) >= i - 1

\* C24 witness: a call for SRER went through the whole chain: the known
\* exception came back as a location of another site, the catalog as a list
\* without a tower of SRER, and the six possible names were looked up.
C24_Witness ==
    /\ res.pc = "returned"
    /\ res.siteCode = "SRER"
    /\ res.direct = <<Tower("TOWER104454", "ABBY")>>
    /\ Len(res.catalog) = 1 /\ res.catalog[1].t = "array" /\ Len(res.catalog[1].items) = 2
    /\ Len(res.guessed) = 6
    /\ Len(res.lookups) = 8

\* C25: a failed lookup by name never ends the chain: after a failed lookup
\* of the known exception the catalog is fetched, and after a failed lookup
\* of a possible name the next name is looked up, so that a call that
\* reaches the possible names looks up all of them; a failed catalog fetch
\* ends the call: no possible name is looked up and the result is empty.
C25_OnlyCatalogFailureAborts ==
    /\ res.direct = <<JsFailed>>
          => Len(res.lookups) >= 2 /\ res.lookups[2] = CatalogEndpoint
    /\ \A i \in 1..Len(res.guessed) :
          res.guessed[i] = JsFailed /\ i < Len(PossibleTowerNames(res.siteCode))
            => Len(res.lookups) >= ChainHead + i + 1
    /\ res.pc = "returned" /\ Len(res.lookups) > ChainHead
          => Len(res.guessed) = Len(PossibleTowerNames(res.siteCode))
    /\ res.catalog = <<JsFailed>>
          => /\ res.pc = "returned"
             /\ res.value = <<>>
             /\ res.guessed = <<>>
             /\ Len(res.lookups) = ChainHead

\* C25 witness: a call for SRER whose lookup of the known exception and
\* whose first lookup of a possible name failed has looked up all six names
\* and returns the tower the last one found.
C25_Witness ==
    /\ res.pc = "returned"
    /\ res.siteCode = "SRER"
    /\ res.direct = <<JsFailed>>
    /\ Len(res.guessed) = 6
    /\ res.guessed[1] = JsFailed
    /\ res.value = <<Tower("TOWER102755", "SRER")>>

\* C26: every location in the collection findTowersAtSite(S) returns has
\* siteCode = S, whichever strategy produced it and whatever the remote
\* service answered.
C26_ResultsBelongToSite ==
    res.pc = "returned" =>
        \A i \in 1..Len(res.value) :
            res.value[i].t = "location" /\ res.value[i].siteCode = res.siteCode

\* C26 witness: the catalog listed a tower of ABBY next to an entry of SRER,
\* and the call for ABBY returns that tower alone.
C26_Witness ==
    /\ res.pc = "returned"
    /\ res.siteCode = "ABBY"
    /\ Len(res.catalog) = 1 /\ res.catalog[1].t = "array" /\ Len(res.catalog[1].items) = 2
    /\ res.value = <<Location("T1", "ABBY", "TOWER", "Tower")>>

\* C30: one findTowersAtSite call makes at most 8 lookups (the known
\* exception, the catalog and six possible names) and, with at most
\* retryAttempts requests for each, sends at most 24 outbound requests,
\* for every site and whatever the remote service answers.
C30_BoundedRemoteCalls ==
    /\ Len(res.lookups) <= 8
    /\ nSent <= 8 * RetryAttempts
    /\ nSent <= 24

\* C30 witness: a call has made 8 lookups and sent 24 requests.
C30_Witness ==
    /\ Len(res.lookups) = 8
    /\ nSent = 24

---------------------------------------------------------------------------
(* Claims about one tool call, under SpecHandlers.                         *)

\* C27: within one tool call the requests follow one another: at every
\* moment at most one outbound request is sent and not yet answered, in the
\* chain of findTowersAtSite and in the walk of neon_get_location_hierarchy;
\* and the walk looks up at most the first 20 children, one at a time, in
\* the order of the list.
C27_OneRequestAtATime ==
    /\ inflight <= 1
    /\ inflight = IF req.pc = "fetch" THEN 1 ELSE 0
    /\ Len(walk.expanded) <= 20
    /\ Len(walk.expanded) <= Len(walk.children)
    /\ \A i \in 1..Len(walk.expanded) : walk.expanded[i] = walk.children[i]
    /\ walk.pc = "child" => Len(walk.expanded) = walk.idx
    /\ walk.pc = "returned" /\ Len(walk.children) > 20 => Len(walk.expanded) = 20

\* C27 witness: the location listed 21 children; the handler has looked up
\* the first 20, the last of them after three requests, and has ended.
C27_Witness ==
    /\ walk.pc = "returned"
    /\ Len(walk.children) = 21
    /\ Len(walk.expanded) = 20
    /\ req.endpoint = LocationEndpoint(walk.children[20])
    /\ req.attempt = 2
    /\ inflight = 0

---------------------------------------------------------------------------
(* Claims about two concurrent calls, under SpecPair.                      *)

\* the call found no usable entry and turned to the remote service
Missed(who) ==
    \/ FrameOf(who).pc \in {"fetch", "wait"}
    \/ \E i \in 1..Len(ends) : ends[i].who = who

\* how many of the calls await the response to a request
Awaiting == Cardinality({who \in {"req", "peer"} : FrameOf(who).pc = "fetch"})

\* C29: identical requests are not coalesced and the last write wins: of
\* two calls for the same request that both miss the cache each sends its
\* own request (each call that awaits a response has a request of its own
\* outstanding), and once both have succeeded the store holds one entry
\* under their key, with the value of the call that ended last and the
\* clock value of its end.
C29_LastWriteWins ==
    /\ inflight = Awaiting
    /\ Missed("req") /\ Missed("peer") => nSent >= 2
    /\ Len(ends) = 2 /\ ends[1].ok /\ ends[2].ok
          => /\ DOMAIN cache = {PairEndpoint}
             /\ cache[PairEndpoint].data = ends[2].value
             /\ cache[PairEndpoint].timestamp = ends[2].at

\* C29 witness: both calls missed and had their requests outstanding
\* together; the first ended with one value, the second later with another.
C29_Witness ==
    /\ Len(ends) = 2 /\ ends[1].ok /\ ends[2].ok
    /\ ends[1].overlap
    /\ req.held = <<>> /\ peer.held = <<>>
    /\ ends[1].value # ends[2].value
    /\ ends[1].at < ends[2].at
    /\ nSent = 2

====
